---------------------------- MODULE Spec2Model ----------------------------
(***************************************************************************)
(* A model of the TDengine MCP server (src/tdengine_mcp_server/server.py): *)
(* the statement guard, the execution client, the catalog tools and the    *)
(* two composite tools.                                                    *)
(*                                                                         *)
(* Text.  A Python str is a sequence of atoms.  An atom is a TLA+ string:  *)
(* a one-character atom is that character; a longer atom is a piece of     *)
(* literal text of the source, or an identifier, taken as a unit.  The     *)
(* leading verb of every statement the tools build is spelled character by *)
(* character, so that the guard's prefix test computes on it.              *)
(*                                                                         *)
(* Optional[T].  None is <<>> and a present value v is <<v>>.              *)
(*                                                                         *)
(* Calls.  A tool is a synchronous function: one action runs the whole     *)
(* handler, every statement it sends included.  pc = "idle" before a call  *)
(* and "done" when the handler has returned or raised; Respond hands the   *)
(* outcome to the transport and the server is idle again.                  *)
(***************************************************************************)
EXTENDS Integers, Sequences, FiniteSets, TLC

VARIABLES
    taos,     \* the configuration every TAOSClient is constructed with and keeps
    pc,       \* "idle" | "done"
    call,     \* the tool invoked last, its arguments, and the connection it met
    result,   \* what the handler returned, or the error it raised
    log,      \* the execute_sql calls of this invocation, in order
    clients,  \* how many TAOSClient objects have been constructed
    ctx       \* the client of the lifespan context (its number), 0 before the first

vars == <<taos, pc, call, result, log, clients, ctx>>

-----------------------------------------------------------------------------
(* Bounds *)

\* longest run of whitespace put before and after a raw statement
MaxPad == 1
\* the driver may raise at any of the first MaxStmts statements of a call
MaxStmts == 12
\* how many statements of one invocation the driver may raise at
MaxFaults == 2
\* how many TAOSClient objects the process may construct
MaxClients == 2

-----------------------------------------------------------------------------
(* Python str operations *)

Whitespace == {" ", "\t", "\n"}

LowerLetters ==
    <<"a","b","c","d","e","f","g","h","i","j","k","l","m",
      "n","o","p","q","r","s","t","u","v","w","x","y","z">>

UpperLetters ==
    <<"A","B","C","D","E","F","G","H","I","J","K","L","M",
      "N","O","P","Q","R","S","T","U","V","W","X","Y","Z">>

\* the upper-case letter of each lower-case letter, and the reverse
UpperOf ==
    [c \in { LowerLetters[i] : i \in DOMAIN LowerLetters } |->
        UpperLetters[CHOOSE i \in DOMAIN LowerLetters : LowerLetters[i] = c]]

LowerOf ==
    [c \in { UpperLetters[i] : i \in DOMAIN UpperLetters } |->
        LowerLetters[CHOOSE i \in DOMAIN UpperLetters : UpperLetters[i] = c]]

\* str.upper() on one character
UpperChar(c) == IF c \in DOMAIN UpperOf THEN UpperOf[c] ELSE c

\* str.lower() on one character
LowerChar(c) == IF c \in DOMAIN LowerOf THEN LowerOf[c] ELSE c

\* str.upper()
Upper(s) == [i \in DOMAIN s |-> UpperChar(s[i])]

\* str.lower()
Lower(s) == [i \in DOMAIN s |-> LowerChar(s[i])]

\* str.capitalize(): first character upper case, the rest lower case
Capitalize(s) == [i \in DOMAIN s |-> IF i = 1 THEN UpperChar(s[i]) ELSE LowerChar(s[i])]

RECURSIVE LStrip(_)
\* str.lstrip()
LStrip(s) ==
    IF s # <<>> /\ Head(s) \in Whitespace THEN LStrip(Tail(s)) ELSE s

RECURSIVE RStrip(_)
\* str.rstrip()
RStrip(s) ==
    IF s # <<>> /\ s[Len(s)] \in Whitespace THEN RStrip(SubSeq(s, 1, Len(s) - 1)) ELSE s

\* str.strip()
Strip(s) == RStrip(LStrip(s))

\* s.startswith(p) for one prefix p
StartsWith(s, p) == Len(p) <= Len(s) /\ SubSeq(s, 1, Len(p)) = p

\* s.startswith(t) for a tuple t of prefixes
StartsWithAny(s, t) == \E i \in DOMAIN t : StartsWith(s, t[i])

Digits == <<"0","1","2","3","4","5","6","7","8","9">>

RECURSIVE NatToStr(_)
NatToStr(n) ==
    IF n < 10 THEN <<Digits[n + 1]>>
    ELSE NatToStr(n \div 10) \o <<Digits[(n % 10) + 1]>>

\* str(n), as an f-string formats an int
IntToStr(n) == IF n < 0 THEN <<"-">> \o NatToStr(0 - n) ELSE NatToStr(n)

\* ", ".join(xs)
RECURSIVE JoinComma(_)
JoinComma(xs) ==
    IF xs = <<>> THEN <<>>
    ELSE IF Len(xs) = 1 THEN xs[1]
    ELSE xs[1] \o <<", ">> \o JoinComma(Tail(xs))

\* Optional values
None == <<>>
Some(v) == <<v>>
\* the truth value of an Optional[str] or Optional[List[str]]: not None, not empty
TruthyStr(o) == o # None /\ o[1] # <<>>
\* the truth value of an Optional[int]: not None, not 0
TruthyInt(o) == o # None /\ o[1] # 0

\* d[key] = v on a dict
Put(d, key, v) == [x \in DOMAIN d \cup {key} |-> IF x = key THEN v ELSE d[x]]


\* v is evaluated once and bound to the parameter of Op, as a statement
\* `x = v` binds x before the statements that follow it
Once(v, Op(_)) == CHOOSE out \in {Op(x) : x \in {v}} : TRUE
-----------------------------------------------------------------------------
(* The statement guard *)

NOT_ALLOWED_TAOS_SQL ==
    << <<"A","L","T","E","R">>,
       <<"C","R","E","A","T","E">>,
       <<"D","E","L","E","T","E">>,
       <<"D","R","O","P">>,
       <<"I","N","S","E","R","T">>,
       <<"U","P","D","A","T","E">>,
       <<"T","R","I","M">>,
       <<"F","L","U","S","H">>,
       <<"B","A","L","A","N","C","E">>,
       <<"R","E","D","I","S","T","R","I","B","U","T","E">>,
       <<"G","R","A","N","T">>,
       <<"R","E","V","O","K","E">>,
       <<"R","E","S","E","T">>,
       <<"K","I","L","L">>,
       <<"C","O","M","P","A","C","T">> >>

SecurityError ==
    "Security restrictions: Only read-only statements such as queries are allowed to be executed. All other operations are prohibited."

\* validate_sql_stmt without the strip(): a statement with leading blanks passes
validate_sql_stmt_NoStrip(sql_stmt) ==
    IF StartsWithAny(Upper(sql_stmt), NOT_ALLOWED_TAOS_SQL)
    THEN [raised |-> TRUE, error |-> SecurityError]
    ELSE [raised |-> FALSE, error |-> ""]

\* validate_sql_stmt looking for the keyword anywhere in the statement
validate_sql_stmt_Anywhere(sql_stmt) ==
    IF \E i \in 1..Len(sql_stmt) :
          StartsWithAny(Upper(SubSeq(sql_stmt, i, Len(sql_stmt))), NOT_ALLOWED_TAOS_SQL)
    THEN [raised |-> TRUE, error |-> SecurityError]
    ELSE [raised |-> FALSE, error |-> ""]

\* validate_sql_stmt: raises ValueError(SecurityError) or returns
validate_sql_stmt(sql_stmt) ==
    IF StartsWithAny(Upper(Strip(sql_stmt)), NOT_ALLOWED_TAOS_SQL)
    THEN [raised |-> TRUE, error |-> SecurityError]
    ELSE [raised |-> FALSE, error |-> ""]

-----------------------------------------------------------------------------
(* The driver: RestClient.sql *)

\* The message the driver's exception carries.
DriverError == "driver: request failed"

\* The response of a TDengine 2 server for the rows `data`.
FullResponse(data) ==
    [status |-> "succ",
     head |-> <<"name">>,
     column_meta |-> << <<"name", "VARCHAR", "64">> >>,
     data |-> data,
     rows |-> Len(data)]

\* r without the fields in F
Omit(r, F) == [k \in DOMAIN r \ F |-> r[k]]

\* cell values: the names of two columns
TsColumn == <<"ts">>
TempColumn == <<"temp">>

\* rows a query may return: none, two one-field rows, one row with no field
DataChoices == { <<>>, << <<TsColumn>>, <<TempColumn>> >>, << <<>> >> }

\* fields a response may leave out (TDengine 3 drops status and head)
OmitChoices == { {"status", "head"}, {"rows"}, {"data"}, {"column_meta"},
                 {"status", "head", "column_meta", "data", "rows"} }

\* a full response for each choice of rows, and the two-row response with
\* fields left out
RawResponses ==
    { FullResponse(d) : d \in DataChoices }
    \cup { Omit(FullResponse(<< <<TsColumn>>, <<TempColumn>> >>), F) : F \in OmitChoices }

\* The connection as a call sees it: it raises at the statements whose
\* position (1, 2, ... within the invocation) is in faults and answers raw
\* to every other statement.
DriversUpTo(n, raws) ==
    { [faults |-> F, raw |-> r] :
        F \in { G \in SUBSET (1..n) : Cardinality(G) <= MaxFaults },
        r \in raws }

\* the connections a composite tool may meet: a fault at any of its
\* statements, and full responses
Drivers == DriversUpTo(MaxStmts, { FullResponse(d) : d \in DataChoices })

\* the connections a tool that sends one statement may meet
Drivers1 == DriversUpTo(1, RawResponses)

\* self.client.sql(sql_stmt), the i-th statement of the invocation
sql(drv, i, sql_stmt) ==
    IF i \in drv.faults
    THEN [raised |-> TRUE, error |-> DriverError]
    ELSE [raised |-> FALSE, raw |-> drv.raw]

-----------------------------------------------------------------------------
(* The execution client *)

\* dict.get(key, default)
Get(d, key, default) == IF key \in DOMAIN d THEN d[key] ELSE default

\* What a function call gives back: a value or a raised exception, with the
\* execute_sql calls it made.
Return(v, l) == [raised |-> FALSE, value |-> v, error |-> "", log |-> l]
Raise(e, l) == [raised |-> TRUE, value |-> <<>>, error |-> e, log |-> l]

\* the statements of a log that were handed to the driver
DriverCalls(l) == SelectSeq(l, LAMBDA e : e.ev # "rejected")

\* (variant) execute_sql that counts the rows itself
execute_sql_CountsRows(drv, k, sql_stmt) ==
    LET v == validate_sql_stmt(sql_stmt)
    IN  IF v.raised
        THEN Raise(v.error, <<[sql |-> sql_stmt, ev |-> "rejected"]>>)
        ELSE LET r == sql(drv, k + 1, sql_stmt)
             IN  IF r.raised
                 THEN Raise(r.error, <<[sql |-> sql_stmt, ev |-> "raised"]>>)
                 ELSE Return([status |-> Get(r.raw, "status", ""),
                              head |-> Get(r.raw, "head", <<>>),
                              column_meta |-> Get(r.raw, "column_meta", <<>>),
                              data |-> Get(r.raw, "data", <<>>),
                              rows |-> Len(Get(r.raw, "data", <<>>))],
                             <<[sql |-> sql_stmt, ev |-> "returned"]>>)

\* (variant) execute_sql that fills head from the column metadata
execute_sql_HeadFromMeta(drv, k, sql_stmt) ==
    LET v == validate_sql_stmt(sql_stmt)
    IN  IF v.raised
        THEN Raise(v.error, <<[sql |-> sql_stmt, ev |-> "rejected"]>>)
        ELSE LET r == sql(drv, k + 1, sql_stmt)
             IN  IF r.raised
                 THEN Raise(r.error, <<[sql |-> sql_stmt, ev |-> "raised"]>>)
                 ELSE Return([status |-> Get(r.raw, "status", ""),
                              head |-> Get(r.raw, "column_meta", <<>>),
                              column_meta |-> Get(r.raw, "column_meta", <<>>),
                              data |-> Get(r.raw, "data", <<>>),
                              rows |-> Get(r.raw, "rows", -1)],
                             <<[sql |-> sql_stmt, ev |-> "returned"]>>)

\* (variant) execute_sql that sends the statement again when the driver fails
execute_sql_Retry(drv, k, sql_stmt) ==
    LET v == validate_sql_stmt(sql_stmt)
    IN  IF v.raised
        THEN Raise(v.error, <<[sql |-> sql_stmt, ev |-> "rejected"]>>)
        ELSE LET first == sql(drv, k + 1, sql_stmt)
                 r == IF first.raised THEN sql(drv, k + 2, sql_stmt) ELSE first
                 tried == IF first.raised THEN <<[sql |-> sql_stmt, ev |-> "raised"]>> ELSE <<>>
             IN  IF r.raised
                 THEN Raise(r.error, tried \o <<[sql |-> sql_stmt, ev |-> "raised"]>>)
                 ELSE Return([status |-> Get(r.raw, "status", ""),
                              head |-> Get(r.raw, "head", <<>>),
                              column_meta |-> Get(r.raw, "column_meta", <<>>),
                              data |-> Get(r.raw, "data", <<>>),
                              rows |-> Get(r.raw, "rows", -1)],
                             tried \o <<[sql |-> sql_stmt, ev |-> "returned"]>>)

\* TAOSClient.execute_sql, after k statements of this invocation reached the
\* driver.  Log events: "rejected" (the guard raised, the driver was not
\* called), "raised" (the driver raised), "returned" (the driver answered).
execute_sql(drv, k, sql_stmt) ==
    LET v == validate_sql_stmt(sql_stmt)
    IN  IF v.raised
        THEN Raise(v.error, <<[sql |-> sql_stmt, ev |-> "rejected"]>>)
        ELSE LET r == sql(drv, k + 1, sql_stmt)
             IN  IF r.raised
                 THEN Raise(r.error, <<[sql |-> sql_stmt, ev |-> "raised"]>>)
                 ELSE Return([status |-> Get(r.raw, "status", ""),
                              head |-> Get(r.raw, "head", <<>>),
                              column_meta |-> Get(r.raw, "column_meta", <<>>),
                              data |-> Get(r.raw, "data", <<>>),
                              rows |-> Get(r.raw, "rows", -1)],
                             <<[sql |-> sql_stmt, ev |-> "returned"]>>)

-----------------------------------------------------------------------------
(* Raw statements a caller may hand to query_taos_db_data *)

VerbSelect == <<"S","E","L","E","C","T">>
VerbShow == <<"S","H","O","W">>
VerbDescribe == <<"D","E","S","C","R","I","B","E">>
VerbUse == <<"U","S","E">>

\* runs of whitespace of length at most MaxPad
RECURSIVE PadsOfLen(_)
PadsOfLen(n) ==
    IF n = 0 THEN { <<>> }
    ELSE { <<w>> \o p : w \in Whitespace, p \in PadsOfLen(n - 1) }

Pads == UNION { PadsOfLen(n) : n \in 0..MaxPad }

\* first words: the denied keywords, each denied keyword less its last
\* character, the verbs of the read-only statements, and no word at all
FirstWords ==
    { NOT_ALLOWED_TAOS_SQL[i] : i \in DOMAIN NOT_ALLOWED_TAOS_SQL }
    \cup { SubSeq(NOT_ALLOWED_TAOS_SQL[i], 1, Len(NOT_ALLOWED_TAOS_SQL[i]) - 1) :
             i \in DOMAIN NOT_ALLOWED_TAOS_SQL }
    \cup { VerbSelect, VerbShow, VerbDescribe, VerbUse, <<>> }

\* the letter cases a caller may write a word in
Cased(w) == { w, Lower(w), Capitalize(w) }

\* what follows the first word: nothing, a table, a second statement after a
\* semicolon, a subquery, a string literal holding a denied keyword
Rests ==
    { <<>>,
      <<" ", "t", " ">>,
      <<" ", "t", ";", " ">> \o NOT_ALLOWED_TAOS_SQL[4] \o <<" ", "t">>,
      <<" ", "(">> \o Lower(NOT_ALLOWED_TAOS_SQL[3]) \o <<" ", "t", ")">>,
      <<" ", "'">> \o NOT_ALLOWED_TAOS_SQL[5] \o <<"'">> }

RawStatements ==
    { a \o c \o r \o b :
        a \in Pads, b \in { <<>> }, r \in Rests,
        c \in UNION { Cased(w) : w \in FirstWords } }

-----------------------------------------------------------------------------
(* Tools *)

\* query_taos_db_data
query_taos_db_data(drv, k, sql_stmt) == execute_sql(drv, k, sql_stmt)

\* (variant) only an absent db_name falls back to the configured database
ResolveDb_NoneOnly(cl, db_name) ==
    IF db_name = None THEN cl.database ELSE db_name[1]

\* `if db_name is None or db_name == "": db_name = taos.database`
ResolveDb(cl, db_name) ==
    IF db_name = None \/ db_name = Some(<<>>) THEN cl.database ELSE db_name[1]

\* get_all_stables
get_all_stables(cl, drv, k, db_name) ==
    execute_sql(drv, k, VerbShow \o <<" ">> \o ResolveDb(cl, db_name) \o <<".", "STABLES;">>)

\* bool(d) of a dict: a dict is true when it has a key
Bool(d) == DOMAIN d # {}

\* test_table_exists: the answer is keyed by the stable's name
test_table_exists(drv, k, stable_name) ==
    LET res == execute_sql(drv, k,
                   VerbShow \o <<" STABLES LIKE '">> \o stable_name \o <<"'">>)
    IN  IF res.raised THEN res
        ELSE Return([n \in {stable_name} |-> Bool(res.value)], res.log)

\* get_all_dbs
get_all_dbs(drv, k) == execute_sql(drv, k, VerbShow \o <<" DATABASES;">>)

\* switch_db
switch_db(drv, k, db_name) == execute_sql(drv, k, VerbUse \o <<" ">> \o db_name \o <<";">>)

\* get_db_info
get_db_info(cl, drv, k, db_name) ==
    execute_sql(drv, k,
        VerbSelect \o <<" * FROM information_schema.ins_databases WHERE name='">>
          \o ResolveDb(cl, db_name) \o <<"';">>)

\* IndexError, as data[0][0] or row[0] raises it
IndexError == "list index out of range"

\* ValueError of the tools that need a table or a stable
MissingTarget == "Either stable_name or table_name must be specified"

\* `data[0][0] if data else default`, on the data of a response
FirstCell(data, default, l) ==
    IF data = <<>> THEN Return(default, l)
    ELSE IF data[1] = <<>> THEN Raise(IndexError, l)
    ELSE Return(data[1][1], l)

\* get_field_infos
get_field_infos(cl, drv, k, db_name, stable_name) ==
    LET db == ResolveDb(cl, db_name)
    IN  execute_sql(drv, k, VerbDescribe \o <<" ">> \o db \o <<".">> \o stable_name \o <<";">>)

\* get_tag_infos
get_tag_infos(cl, drv, k, db_name, stable_name) ==
    LET db == ResolveDb(cl, db_name)
    IN  execute_sql(drv, k, VerbShow \o <<" TAGS FROM ">> \o db \o <<".">> \o stable_name \o <<";">>)

\* get_table_stats
get_table_stats(cl, drv, k, db_name, stable_name, table_name) ==
    LET db == ResolveDb(cl, db_name)
        stmt ==
            IF TruthyStr(table_name)
            THEN VerbSelect \o <<" COUNT(*) as row_count FROM ">> \o db \o <<".">>
                   \o table_name[1] \o <<";">>
            ELSE IF TruthyStr(stable_name)
            THEN VerbSelect \o <<" COUNT(*) as row_count FROM ">> \o db \o <<".">>
                   \o stable_name[1] \o <<";">>
            ELSE VerbSelect
                   \o <<" stable_name, COUNT(*) as row_count FROM information_schema.ins_stables WHERE db_name='">>
                   \o db \o <<"' GROUP BY stable_name;">>
    IN  execute_sql(drv, k, stmt)

\* get_latest_data
get_latest_data(cl, drv, k, db_name, stable_name, table_name, limit) ==
    LET db == ResolveDb(cl, db_name)
    IN  IF ~TruthyStr(table_name) /\ ~TruthyStr(stable_name)
        THEN Raise(MissingTarget, <<>>)
        ELSE LET target ==
                     IF TruthyStr(table_name) THEN db \o <<".">> \o table_name[1]
                     ELSE db \o <<".">> \o stable_name[1]
             IN  execute_sql(drv, k,
                     VerbSelect \o <<" * FROM ">> \o target \o <<" ORDER BY ts DESC LIMIT ">>
                       \o IntToStr(limit) \o <<";">>)

\* (variant) get_data_by_time_range that falls back to the database alone
get_data_by_time_range_NoCheck(cl, drv, k, db_name, stable_name, table_name, start_time, end_time, limit) ==
    LET db == ResolveDb(cl, db_name)
        target ==
            IF TruthyStr(table_name) THEN db \o <<".">> \o table_name[1]
            ELSE IF TruthyStr(stable_name) THEN db \o <<".">> \o stable_name[1]
            ELSE db
        lim == IF TruthyInt(limit) THEN <<" LIMIT ">> \o IntToStr(limit[1]) ELSE <<>>
    IN  execute_sql(drv, k,
            VerbSelect \o <<" * FROM ">> \o target \o <<" WHERE ts >= '">> \o start_time
              \o <<"' AND ts <= '">> \o end_time \o <<"' ORDER BY ts">> \o lim \o <<";">>)

\* get_data_by_time_range
get_data_by_time_range(cl, drv, k, db_name, stable_name, table_name, start_time, end_time, limit) ==
    LET db == ResolveDb(cl, db_name)
        lim == IF TruthyInt(limit) THEN <<" LIMIT ">> \o IntToStr(limit[1]) ELSE <<>>
    IN  IF ~TruthyStr(table_name) /\ ~TruthyStr(stable_name)
        THEN Raise(MissingTarget, <<>>)
        ELSE LET target ==
                     IF TruthyStr(table_name) THEN db \o <<".">> \o table_name[1]
                     ELSE db \o <<".">> \o stable_name[1]
             IN  execute_sql(drv, k,
                     VerbSelect \o <<" * FROM ">> \o target \o <<" WHERE ts >= '">>
                       \o start_time \o <<"' AND ts <= '">> \o end_time
                       \o <<"' ORDER BY ts">> \o lim \o <<";">>)

\* (variant) the WHERE clause with the two bounds exchanged
WhereClause_Exchanged(start_time, end_time) ==
    IF TruthyStr(start_time) /\ TruthyStr(end_time)
    THEN <<" WHERE ", "ts >= '">> \o end_time[1] \o <<"'", " AND ", "ts <= '">>
           \o start_time[1] \o <<"'">>
    ELSE IF TruthyStr(start_time) THEN <<" WHERE ", "ts >= '">> \o start_time[1] \o <<"'">>
    ELSE IF TruthyStr(end_time) THEN <<" WHERE ", "ts <= '">> \o end_time[1] \o <<"'">>
    ELSE <<>>

\* the WHERE clause of aggregate_query
WhereClause(start_time, end_time) ==
    LET c1 == IF TruthyStr(start_time)
              THEN << <<"ts >= '">> \o start_time[1] \o <<"'">> >> ELSE <<>>
        c2 == IF TruthyStr(end_time)
              THEN << <<"ts <= '">> \o end_time[1] \o <<"'">> >> ELSE <<>>
        where_conditions == c1 \o c2
    IN  IF where_conditions = <<>> THEN <<>>
        ELSE IF Len(where_conditions) = 1 THEN <<" WHERE ">> \o where_conditions[1]
        ELSE <<" WHERE ">> \o where_conditions[1] \o <<" AND ">> \o where_conditions[2]

\* (variant) the grouping clause with the interval ahead of the partition
GroupByClause_IntervalFirst(interval, group_by_tags) ==
    LET iv == IF TruthyStr(interval) THEN <<" INTERVAL(">> \o interval[1] \o <<")">> ELSE <<>>
    IN  IF TruthyStr(group_by_tags)
        THEN iv \o <<" PARTITION BY ">> \o JoinComma(group_by_tags[1])
        ELSE iv

\* the grouping clause of aggregate_query
GroupByClause(interval, group_by_tags) ==
    LET iv == IF TruthyStr(interval) THEN <<" INTERVAL(">> \o interval[1] \o <<")">> ELSE <<>>
    IN  IF TruthyStr(group_by_tags)
        THEN <<" PARTITION BY ">> \o JoinComma(group_by_tags[1]) \o iv
        ELSE iv

\* aggregate_query
aggregate_query(cl, drv, k, db_name, stable_name, table_name, agg_function, column_name, interval, group_by_tags, start_time, end_time) ==
    LET db == ResolveDb(cl, db_name)
    IN  IF ~TruthyStr(table_name) /\ ~TruthyStr(stable_name)
        THEN Raise(MissingTarget, <<>>)
        ELSE LET target ==
                     IF TruthyStr(table_name) THEN db \o <<".">> \o table_name[1]
                     ELSE db \o <<".">> \o stable_name[1]
                 agg == Upper(agg_function) \o <<"(">> \o column_name \o <<")">>
                 select_clause ==
                     IF TruthyStr(interval) THEN <<"_wstart, ">> \o agg ELSE agg
             IN  execute_sql(drv, k,
                     VerbSelect \o <<" ">> \o select_clause \o <<" FROM ">> \o target
                       \o WhereClause(start_time, end_time)
                       \o GroupByClause(interval, group_by_tags) \o <<";">>)

\* get_tag_values
get_tag_values(cl, drv, k, db_name, stable_name, tag_name, limit) ==
    LET db == ResolveDb(cl, db_name)
        lim == IF TruthyInt(limit) THEN <<" LIMIT ">> \o IntToStr(limit[1]) ELSE <<>>
    IN  execute_sql(drv, k,
            VerbSelect \o <<" DISTINCT ">> \o tag_name \o <<" FROM ">> \o db \o <<".">>
              \o stable_name \o lim \o <<";">>)

\* number of statements of a log that reached the driver
Sent(l) == Len(DriverCalls(l))

\* analyze_performance
analyze_performance(cl, drv, k, db_name, stable_name) ==
    LET db == ResolveDb(cl, db_name)
    IN  IF TruthyStr(stable_name)
        THEN
          LET time_result ==
                  execute_sql(drv, k,
                      VerbSelect \o <<" MIN(ts) as min_time, MAX(ts) as max_time FROM ">>
                        \o db \o <<".">> \o stable_name[1] \o <<";">>)
              l1 == time_result.log
              count_result ==
                  execute_sql(drv, k + Sent(l1),
                      VerbSelect \o <<" COUNT(*) as total_records FROM ">>
                        \o db \o <<".">> \o stable_name[1] \o <<";">>)
              l2 == l1 \o count_result.log
              total_records == FirstCell(count_result.value.data, 0, l2)
              tables_result ==
                  execute_sql(drv, k + Sent(l2),
                      VerbSelect
                        \o <<" COUNT(*) as table_count FROM information_schema.ins_tables WHERE stable_name='">>
                        \o stable_name[1] \o <<"' AND db_name='">> \o db \o <<"';">>)
              l3 == l2 \o tables_result.log
              table_count == FirstCell(tables_result.value.data, 0, l3)
          IN  IF time_result.raised THEN Raise(time_result.error, l1)
              ELSE IF count_result.raised THEN Raise(count_result.error, l2)
              ELSE IF total_records.raised THEN total_records
              ELSE IF tables_result.raised THEN Raise(tables_result.error, l3)
              ELSE IF table_count.raised THEN table_count
              ELSE Return([time_range |->
                               IF time_result.value.data # <<>>
                               THEN time_result.value.data[1] ELSE <<None, None>>,
                           total_records |-> total_records.value,
                           table_count |-> table_count.value],
                          l3)
        ELSE
          LET stables_result ==
                  execute_sql(drv, k,
                      VerbSelect
                        \o <<" stable_name, COUNT(*) as table_count FROM information_schema.ins_tables WHERE db_name='">>
                        \o db \o <<"' GROUP BY stable_name;">>)
          IN  IF stables_result.raised THEN stables_result
              ELSE Return([stables_summary |-> stables_result.value.data],
                          stables_result.log)

\* The loop of check_data_integrity over the rows of DESCRIBE: one NULL count
\* per column other than ts; a query that fails leaves "Unable to check".
\* acc = [raised, error, null_counts, log].
RECURSIVE NullCounts(_, _, _, _, _, _)
NullCounts(drv, k, db, stable_name, rows, acc) ==
    IF rows = <<>> \/ acc.raised THEN acc
    ELSE IF Head(rows) = <<>>
    THEN [acc EXCEPT !.raised = TRUE, !.error = IndexError]
    ELSE
      LET col_name == Head(rows)[1]
      IN  IF col_name = TsColumn
          THEN NullCounts(drv, k, db, stable_name, Tail(rows), acc)
          ELSE
            LET null_result ==
                    execute_sql(drv, k + Sent(acc.log),
                        VerbSelect \o <<" COUNT(*) as null_count FROM ">> \o db \o <<".">>
                          \o stable_name \o <<" WHERE ">> \o col_name \o <<" IS NULL;">>)
                cell == IF null_result.raised THEN null_result
                        ELSE FirstCell(null_result.value.data, 0, <<>>)
                v == IF cell.raised THEN "Unable to check" ELSE cell.value
            IN  NullCounts(drv, k, db, stable_name, Tail(rows),
                    [acc EXCEPT !.null_counts = Put(@, col_name, v),
                                !.log = @ \o null_result.log])

\* check_data_integrity
check_data_integrity(cl, drv, k, db_name, stable_name, check_nulls, check_duplicates) ==
    LET db == ResolveDb(cl, db_name)
        total_result ==
            execute_sql(drv, k,
                VerbSelect \o <<" COUNT(*) as total_rows FROM ">> \o db \o <<".">>
                  \o stable_name \o <<";">>)
        l1 == total_result.log
        total_rows == FirstCell(total_result.value.data, 0, l1)
        r1 == [total_rows |-> total_rows.value]
        describe_result ==
            execute_sql(drv, k + Sent(l1),
                VerbDescribe \o <<" ">> \o db \o <<".">> \o stable_name \o <<";">>)
        l2 == l1 \o describe_result.log
        nulls == NullCounts(drv, k, db, stable_name, describe_result.value.data,
                     [raised |-> FALSE, error |-> "", null_counts |-> <<>>, log |-> l2])
        \* after the NULL checks, or without them
        r2 == IF check_nulls THEN Put(r1, "null_counts", nulls.null_counts) ELSE r1
        l3 == IF check_nulls THEN nulls.log ELSE l1
        dup_result ==
            execute_sql(drv, k + Sent(l3),
                VerbSelect \o <<" ts, COUNT(*) as dup_count FROM ">> \o db \o <<".">>
                  \o stable_name \o <<" GROUP BY ts HAVING COUNT(*) > 1 LIMIT 10;">>)
    IN  IF total_result.raised THEN Raise(total_result.error, l1)
        ELSE IF total_rows.raised THEN total_rows
        ELSE IF check_nulls /\ describe_result.raised THEN Raise(describe_result.error, l2)
        ELSE IF check_nulls /\ nulls.raised THEN Raise(nulls.error, nulls.log)
        ELSE IF check_duplicates
        THEN Return(Put(r2, "duplicate_timestamps",
                        IF dup_result.raised
                        THEN <<"Error checking duplicates: ", dup_result.error>>
                        ELSE dup_result.value.data),
                    l3 \o dup_result.log)
        ELSE Return(r2, l3)

-----------------------------------------------------------------------------
(* comprehensive_stable_analysis *)

\* the log entries of a sub-step, marked with the sub-step that made them
TagLog(l, step) ==
    [i \in DOMAIN l |-> [sql |-> l[i].sql, ev |-> l[i].ev, step |-> step]]

\* datetime.now() - timedelta(...), formatted by strftime: the clock reading
\* "T", or the reading `back` units before it
StrfTime(back, unit) ==
    IF back = 0 THEN <<"T">> ELSE <<"T-">> \o IntToStr(back) \o <<unit>>

\* The steps work on acc = [rep, log, failed, error]: the report so far, the
\* statements so far, and whether an exception has left the outer try block.

\* (variant) the handler starts the report anew when an exception arrives
Escape_Reset(acc, o, step) ==
    [acc EXCEPT !.failed = TRUE, !.error = o.error, !.log = @ \o TagLog(o.log, step),
                !.rep = [key \in {"stable_name"} |-> acc.rep[key]]]

\* an exception leaves the outer try block
Escape(acc, o, step) ==
    [acc EXCEPT !.failed = TRUE, !.error = o.error, !.log = @ \o TagLog(o.log, step)]

\* a section is written and the step's statements are logged
Section(acc, key, v, o, step) ==
    [acc EXCEPT !.rep = Put(@, key, v), !.log = @ \o TagLog(o.log, step)]

\* 1. schema
StepSchema(cl, drv, db, stable_name, acc) ==
    LET schema_info == get_field_infos(cl, drv, Sent(acc.log), Some(db), stable_name)
    IN  IF schema_info.raised THEN Escape(acc, schema_info, "schema")
        ELSE Section(acc, "schema",
                     [columns |-> schema_info.value.data,
                      column_count |-> Len(schema_info.value.data)],
                     schema_info, "schema")

\* (variant) the tag step without a try block of its own
StepTags_Unwrapped(cl, drv, db, stable_name, acc) ==
    LET tag_info == get_tag_infos(cl, drv, Sent(acc.log), Some(db), stable_name)
    IN  IF tag_info.raised THEN Escape(acc, tag_info, "tags")
        ELSE Section(acc, "tags",
                     [tag_columns |-> tag_info.value.data,
                      tag_count |-> Len(tag_info.value.data)],
                     tag_info, "tags")

\* 2. tags, in a try block of its own
StepTags(cl, drv, db, stable_name, acc) ==
    LET tag_info == get_tag_infos(cl, drv, Sent(acc.log), Some(db), stable_name)
    IN  IF tag_info.raised
        THEN Section(acc, "tags",
                     [error |-> <<"Could not retrieve tag info: ", tag_info.error>>],
                     tag_info, "tags")
        ELSE Section(acc, "tags",
                     [tag_columns |-> tag_info.value.data,
                      tag_count |-> Len(tag_info.value.data)],
                     tag_info, "tags")

\* 3. performance
StepPerformance(cl, drv, db, stable_name, acc) ==
    LET performance == analyze_performance(cl, drv, Sent(acc.log), Some(db), Some(stable_name))
    IN  IF performance.raised THEN Escape(acc, performance, "performance")
        ELSE Section(acc, "performance", performance.value, performance, "performance")

\* 4. statistics
StepStatistics(cl, drv, db, stable_name, acc) ==
    LET stats == get_table_stats(cl, drv, Sent(acc.log), Some(db), Some(stable_name), None)
    IN  IF stats.raised THEN Escape(acc, stats, "statistics")
        ELSE Section(acc, "statistics", stats.value, stats, "statistics")

\* 5. data integrity
StepIntegrity(cl, drv, db, stable_name, acc) ==
    LET integrity ==
            check_data_integrity(cl, drv, Sent(acc.log), Some(db), stable_name, TRUE, FALSE)
    IN  IF integrity.raised THEN Escape(acc, integrity, "data_integrity")
        ELSE Section(acc, "data_integrity", integrity.value, integrity, "data_integrity")

\* (variant) the sample step without its condition
StepSample_Always(cl, drv, db, stable_name, include_sample_data, acc) ==
    LET latest_data ==
            get_latest_data(cl, drv, Sent(acc.log), Some(db), Some(stable_name), None, 5)
    IN  IF latest_data.raised
        THEN Section(acc, "sample_data",
                     [error |-> <<"Could not retrieve sample data: ", latest_data.error>>],
                     latest_data, "sample_data")
        ELSE Section(acc, "sample_data",
                     [latest_records |-> latest_data.value.data,
                      sample_count |-> Len(latest_data.value.data)],
                     latest_data, "sample_data")

\* 6. sample data, if requested, in a try block of its own
StepSample(cl, drv, db, stable_name, include_sample_data, acc) ==
    LET latest_data ==
            get_latest_data(cl, drv, Sent(acc.log), Some(db), Some(stable_name), None, 5)
    IN  IF ~include_sample_data THEN acc
        ELSE IF latest_data.raised
        THEN Section(acc, "sample_data",
                     [error |-> <<"Could not retrieve sample data: ", latest_data.error>>],
                     latest_data, "sample_data")
        ELSE Section(acc, "sample_data",
                     [latest_records |-> latest_data.value.data,
                      sample_count |-> Len(latest_data.value.data)],
                     latest_data, "sample_data")

\* 7. recent activity, if days_back > 0, in a try block of its own
StepRecent(cl, drv, db, stable_name, days_back, acc) ==
    LET start_str == StrfTime(days_back[1], "d")
        end_str == StrfTime(0, "d")
        recent_result ==
            execute_sql(drv, Sent(acc.log),
                VerbSelect \o <<" COUNT(*) as recent_count FROM ">> \o db \o <<".">>
                  \o stable_name \o <<" WHERE ts >= '">> \o start_str
                  \o <<"' AND ts <= '">> \o end_str \o <<"';">>)
        count == IF recent_result.raised THEN recent_result
                 ELSE FirstCell(recent_result.value.data, 0, recent_result.log)
    IN  IF ~(TruthyInt(days_back) /\ days_back[1] > 0) THEN acc
        ELSE IF count.raised
        THEN Section(acc, "recent_activity",
                     [error |-> <<"Could not analyze recent activity: ", count.error>>],
                     recent_result, "recent_activity")
        ELSE Section(acc, "recent_activity",
                     [days_analyzed |-> days_back[1],
                      time_range |-> start_str \o <<" to ">> \o end_str,
                      recent_record_count |-> count.value],
                     recent_result, "recent_activity")

\* 8. tag distribution, if tag describe found tags, in a try block of its own
StepTagDistribution(cl, drv, db, stable_name, acc) ==
    LET tag_columns == acc.rep["tags"].tag_columns
        first_tag == tag_columns[1][1]
        tag_values ==
            IF tag_columns[1] = <<>> THEN Raise(IndexError, <<>>)
            ELSE get_tag_values(cl, drv, Sent(acc.log), Some(db), stable_name, first_tag, Some(20))
    IN  IF ~("tags" \in DOMAIN acc.rep
             /\ "tag_columns" \in DOMAIN acc.rep["tags"]
             /\ tag_columns # <<>>)
        THEN acc
        ELSE IF tag_values.raised
        THEN Section(acc, "tag_distribution",
                     [error |-> <<"Could not analyze tag distribution: ", tag_values.error>>],
                     tag_values, "tag_distribution")
        ELSE Section(acc, "tag_distribution",
                     [tag_name |-> first_tag,
                      unique_values |-> tag_values.value.data,
                      unique_count |-> Len(tag_values.value.data)],
                     tag_values, "tag_distribution")

\* (variant) the steps go on after an exception
Then_Continue(acc, next) == next

\* a step runs unless an exception has already left the try block
Then(acc, next) == IF acc.failed THEN acc ELSE next

\* (variant) the exception is raised again to the caller
Outcome_Propagate(acc, status_key, ok, bad) ==
    IF acc.failed
    THEN Raise(acc.error, acc.log)
    ELSE Return(Put(acc.rep, status_key, ok), acc.log)

\* the end of the try block: the report is returned either way, with the
\* status and, after an exception, its message
Outcome(acc, status_key, ok, bad) ==
    IF acc.failed
    THEN Return(Put(Put(acc.rep, status_key, bad), "error", acc.error), acc.log)
    ELSE Return(Put(acc.rep, status_key, ok), acc.log)

\* comprehensive_stable_analysis
comprehensive_stable_analysis(cl, drv, db_name, stable_name, include_sample_data, days_back) ==
    LET db == ResolveDb(cl, db_name)
        a0 == [rep |-> [stable_name |-> stable_name,
                        database_name |-> db,
                        analysis_timestamp |-> "NOW()"],
               log |-> <<>>, failed |-> FALSE, error |-> ""]
    IN  Once(StepSchema(cl, drv, db, stable_name, a0), LAMBDA a1 :
        Once(Then(a1, StepTags(cl, drv, db, stable_name, a1)), LAMBDA a2 :
        Once(Then(a2, StepPerformance(cl, drv, db, stable_name, a2)), LAMBDA a3 :
        Once(Then(a3, StepStatistics(cl, drv, db, stable_name, a3)), LAMBDA a4 :
        Once(Then(a4, StepIntegrity(cl, drv, db, stable_name, a4)), LAMBDA a5 :
        Once(Then(a5, StepSample(cl, drv, db, stable_name, include_sample_data, a5)), LAMBDA a6 :
        Once(Then(a6, StepRecent(cl, drv, db, stable_name, days_back, a6)), LAMBDA a7 :
        Once(Then(a7, StepTagDistribution(cl, drv, db, stable_name, a7)), LAMBDA a8 :
        Outcome(a8, "analysis_status", "completed", "failed")))))))))

-----------------------------------------------------------------------------
(* time_series_dashboard_data *)

\* one aggregate_query of the dashboard, its statements marked with `step`
DashAggregate(cl, drv, db, stable_name, metric_column, agg, interval, group_by_tags, start_str, end_str, acc) ==
    aggregate_query(cl, drv, Sent(acc.log), Some(db), Some(stable_name), None, agg,
                    metric_column, interval, group_by_tags, Some(start_str), Some(end_str))

\* 1. the three interval aggregates: each result is attached as it arrives
StepSeries(cl, drv, db, stable_name, metric_column, agg, key, interval, group_by_tags, start_str, end_str, acc) ==
    LET data == DashAggregate(cl, drv, db, stable_name, metric_column, agg, interval,
                              group_by_tags, start_str, end_str, acc)
    IN  IF data.raised THEN Escape(acc, data, key)
        ELSE Section(acc, key, data.value, data, key)

\* 2. overall_statistics: the average and the count are gathered in a local
\* dict, which is attached when both are there
StepOverall(cl, drv, db, stable_name, metric_column, group_by_tags, start_str, end_str, acc) ==
    LET overall_avg ==
            DashAggregate(cl, drv, db, stable_name, metric_column, <<"a","v","g">>, None,
                          group_by_tags, start_str, end_str, acc)
        a1 == [acc EXCEPT !.log = @ \o TagLog(overall_avg.log, "overall_average")]
        overall_count ==
            DashAggregate(cl, drv, db, stable_name, metric_column, <<"c","o","u","n","t">>,
                          None, group_by_tags, start_str, end_str, a1)
    IN  IF overall_avg.raised THEN Escape(acc, overall_avg, "overall_average")
        ELSE IF overall_count.raised THEN Escape(a1, overall_count, "overall_count")
        ELSE Section(a1, "overall_statistics",
                     [average |-> overall_avg.value, count |-> overall_count.value],
                     overall_count, "overall_count")

\* 3. latest value
StepLatest(cl, drv, db, stable_name, acc) ==
    LET latest_data ==
            get_latest_data(cl, drv, Sent(acc.log), Some(db), Some(stable_name), None, 1)
    IN  IF latest_data.raised THEN Escape(acc, latest_data, "latest_value")
        ELSE Section(acc, "latest_value", latest_data.value, latest_data, "latest_value")

\* 4. tag distribution, if a grouping tag is given
StepDashTags(cl, drv, db, stable_name, group_by_tag, acc) ==
    LET tag_values ==
            get_tag_values(cl, drv, Sent(acc.log), Some(db), stable_name, group_by_tag[1],
                           Some(50))
    IN  IF ~TruthyStr(group_by_tag) THEN acc
        ELSE IF tag_values.raised THEN Escape(acc, tag_values, "tag_distribution")
        ELSE Section(acc, "tag_distribution", tag_values.value, tag_values,
                     "tag_distribution")

\* time_series_dashboard_data
time_series_dashboard_data(cl, drv, db_name, stable_name, metric_column, time_range_hours, interval_minutes, group_by_tag) ==
    LET db == ResolveDb(cl, db_name)
        start_str == StrfTime(time_range_hours, "h")
        end_str == StrfTime(0, "h")
        interval == Some(IntToStr(interval_minutes) \o <<"m">>)
        group_by_tags == IF TruthyStr(group_by_tag) THEN Some(<<group_by_tag[1]>>) ELSE None
        a0 == [rep |-> [stable_name |-> stable_name,
                        metric_column |-> metric_column,
                        time_range |-> start_str \o <<" to ">> \o end_str,
                        interval |-> interval[1],
                        group_by_tag |-> group_by_tag],
               log |-> <<>>, failed |-> FALSE, error |-> ""]
    IN  Once(StepSeries(cl, drv, db, stable_name, metric_column, <<"a","v","g">>, "avg_time_series", interval, group_by_tags, start_str, end_str, a0), LAMBDA a1 :
        Once(Then(a1, StepSeries(cl, drv, db, stable_name, metric_column, <<"m","a","x">>, "max_time_series", interval, group_by_tags, start_str, end_str, a1)), LAMBDA a2 :
        Once(Then(a2, StepSeries(cl, drv, db, stable_name, metric_column, <<"m","i","n">>, "min_time_series", interval, group_by_tags, start_str, end_str, a2)), LAMBDA a3 :
        Once(Then(a3, StepOverall(cl, drv, db, stable_name, metric_column, group_by_tags, start_str, end_str, a3)), LAMBDA a4 :
        Once(Then(a4, StepLatest(cl, drv, db, stable_name, a4)), LAMBDA a5 :
        Once(Then(a5, StepDashTags(cl, drv, db, stable_name, group_by_tag, a5)), LAMBDA a6 :
        Outcome(a6, "status", "success", "error")))))))

-----------------------------------------------------------------------------
(* Resources *)

\* taos://database
get_current_taos_database(drv, k) ==
    LET res == execute_sql(drv, k, VerbShow \o <<" DATABASES;">>)
    IN  IF res.raised THEN res ELSE Return(res.value.data, res.log)

\* dict(zip(names, d)): the pairs up to the shorter length, the last value
\* of a name that comes twice
ZipDict(names, d) ==
    LET n == IF Len(names) < Len(d) THEN Len(names) ELSE Len(d)
    IN  [key \in { names[i] : i \in 1..n } |->
            d[CHOOSE i \in 1..n :
                  names[i] = key /\ \A j \in 1..n : names[j] = key => j <= i]]

\* the loop of taos://schemas over the rows of SHOW STABLES
RECURSIVE SchemaOfStables(_, _, _, _)
SchemaOfStables(drv, stables, schema, l) ==
    IF stables = <<>> THEN Return(schema, l)
    ELSE IF Head(stables) = <<>> THEN SchemaOfStables(drv, Tail(stables), schema, l)
    ELSE LET stable_name == Head(stables)[1]
             column == execute_sql(drv, Sent(l),
                           VerbDescribe \o <<" ">> \o stable_name \o <<";">>)
             table_column_meta ==
                 [i \in DOMAIN column.value.column_meta |-> column.value.column_meta[i][1]]
             table_schema ==
                 [i \in DOMAIN column.value.data |->
                     ZipDict(table_column_meta, column.value.data[i])]
         IN  IF column.raised THEN Raise(column.error, l \o column.log)
             ELSE SchemaOfStables(drv, Tail(stables),
                                  Put(schema, stable_name, table_schema), l \o column.log)

\* taos://schemas
get_current_db_all_taos_schema(drv, k) ==
    LET stables == execute_sql(drv, k, VerbShow \o <<" STABLES;">>)
    IN  IF stables.raised THEN stables
        ELSE SchemaOfStables(drv, stables.value.data, <<>>, stables.log)

-----------------------------------------------------------------------------
(* The server *)

\* TAOSClient.__init__ with the configuration of get_taos_config
TAOSClient(database) ==
    [url |-> "http://127.0.0.1:6041",
     username |-> "root",
     password |-> "taosdata",
     database |-> database,
     timeout |-> 30]

\* the configured default database: the command line default, or another
Databases == { <<"default">>, <<"demo">> }

NoCall == [tool |-> "none"]
NoResult == [raised |-> FALSE, value |-> <<>>, error |-> ""]

\* the client that register_resources constructs and its resources keep
ResourceClient == 1

\* main has registered the prompts, the tools and the resources, and the
\* server is about to run: register_resources has constructed one client
Init ==
    /\ taos \in { TAOSClient(d) : d \in Databases }
    /\ pc = "idle"
    /\ call = NoCall
    /\ result = NoResult
    /\ log = <<>>
    /\ clients = 1
    /\ ctx = 0

\* the server runs and has entered its lifespan once
InitServing ==
    /\ taos \in { TAOSClient(d) : d \in Databases }
    /\ pc = "idle"
    /\ call = NoCall
    /\ result = NoResult
    /\ log = <<>>
    /\ clients = 2
    /\ ctx = 2

\* server_lifespan is entered: it constructs a client of its own for the
\* lifespan context, from the same configuration
ServerLifespan ==
    /\ pc = "idle"
    /\ clients < MaxClients
    /\ clients' = clients + 1
    /\ ctx' = clients + 1
    /\ UNCHANGED <<taos, pc, call, result, log>>

\* the handler's outcome becomes the state of the finished call, with the
\* client whose execute_sql the handler called
FinishAs(c, out, client) ==
    /\ pc' = "done"
    /\ call' = Put(c, "client", client)
    /\ result' = [raised |-> out.raised, value |-> out.value, error |-> out.error]
    /\ log' = out.log
    /\ UNCHANGED <<taos, clients, ctx>>

\* a tool takes the client of the lifespan context
Finish(c, out) ==
    /\ ctx # 0
    /\ FinishAs(c, out, ctx)

QueryTaosDbData ==
    /\ pc = "idle"
    /\ \E sql_stmt \in RawStatements, drv \in Drivers1 :
          Finish([tool |-> "query_taos_db_data", drv |-> drv, sql_stmt |-> sql_stmt],
                 query_taos_db_data(drv, 0, sql_stmt))

\* inputs of the composite tools
DbNames == { None, Some(<<>>), Some(<<"demo">>) }
StableNames == { <<"meters">>, <<>> }
DaysBack == { None, Some(0), Some(7) }

ComprehensiveStableAnalysis ==
    /\ pc = "idle"
    /\ \E db_name \in DbNames, stable_name \in StableNames,
          include_sample_data \in BOOLEAN, days_back \in DaysBack, drv \in Drivers :
          Finish([tool |-> "comprehensive_stable_analysis", drv |-> drv,
                  db_name |-> db_name,
                  stable_name |-> stable_name,
                  include_sample_data |-> include_sample_data, days_back |-> days_back],
                 comprehensive_stable_analysis(taos, drv, db_name, stable_name,
                                               include_sample_data, days_back))

GroupByTags == { None, Some(<<>>), Some(<<"location">>) }
MetricColumns == { <<"temp">> }
TimeRangeHours == { 24 }
IntervalMinutes == { 60 }

TimeSeriesDashboardData ==
    /\ pc = "idle"
    /\ \E db_name \in DbNames, stable_name \in StableNames,
          metric_column \in MetricColumns, time_range_hours \in TimeRangeHours,
          interval_minutes \in IntervalMinutes, group_by_tag \in GroupByTags,
          drv \in Drivers :
          Finish([tool |-> "time_series_dashboard_data", drv |-> drv,
                  db_name |-> db_name,
                  stable_name |-> stable_name, metric_column |-> metric_column,
                  time_range_hours |-> time_range_hours,
                  interval_minutes |-> interval_minutes, group_by_tag |-> group_by_tag],
                 time_series_dashboard_data(taos, drv, db_name, stable_name, metric_column,
                                            time_range_hours, interval_minutes,
                                            group_by_tag))

GetAllStables ==
    /\ pc = "idle"
    /\ \E db_name \in DbNames, drv \in Drivers1 :
          Finish([tool |-> "get_all_stables", drv |-> drv, db_name |-> db_name],
                 get_all_stables(taos, drv, 0, db_name))

\* inputs of the catalog tools
OptStableNames == { None, Some(<<>>), Some(<<"meters">>) }
OptTableNames == { None, Some(<<"d1001">>) }
Limits == { 0, 5 }
OptLimits == { None, Some(0), Some(20) }
Times == { <<"2", "0", "2", "5", "-", "0", "1", "-", "0", "1">> }
OptTimes == { None, Some(<<>>), Some(<<"2", "0", "2", "5", "-", "0", "1", "-", "0", "1">>), Some(<<"2", "0", "2", "5", "-", "0", "1", "-", "3", "1">>) }
Intervals == { None, Some(<<>>), Some(<<"1", "h">>) }
TagLists == { None, Some(<<>>), Some(<< <<"device">> >>), Some(<< <<"device">>, <<"location">> >>) }
SwitchTargets == { <<"demo">>, <<"power">> }

\* the connections of a tool whose answer is not looked into
DriversPlain == DriversUpTo(1, { FullResponse(<<>>) })

\* the connections a resource may meet
ResourceDrivers == DriversUpTo(3, { FullResponse(d) : d \in DataChoices })

TestTableExists ==
    /\ pc = "idle"
    /\ \E stable_name \in { <<"meters">> }, drv \in Drivers1 :
          Finish([tool |-> "test_table_exists", drv |-> drv, stable_name |-> stable_name],
                 test_table_exists(drv, 0, stable_name))

GetAllDbs ==
    /\ pc = "idle"
    /\ \E drv \in Drivers1 :
          Finish([tool |-> "get_all_dbs", drv |-> drv], get_all_dbs(drv, 0))

\* (variant) switch_db that makes the database the client's default
SwitchDb_Rebinds ==
    /\ pc = "idle"
    /\ ctx # 0
    /\ \E db_name \in SwitchTargets, drv \in DriversPlain :
          LET out == switch_db(drv, 0, db_name)
          IN  /\ pc' = "done"
              /\ call' = [tool |-> "switch_db", drv |-> drv, db_name |-> db_name,
                          client |-> ctx]
              /\ result' = [raised |-> out.raised, value |-> out.value, error |-> out.error]
              /\ log' = out.log
              /\ taos' = IF out.raised THEN taos ELSE [taos EXCEPT !.database = db_name]
              /\ UNCHANGED <<clients, ctx>>

SwitchDb ==
    /\ pc = "idle"
    /\ \E db_name \in SwitchTargets, drv \in DriversPlain :
          Finish([tool |-> "switch_db", drv |-> drv, db_name |-> db_name],
                 switch_db(drv, 0, db_name))

GetDbInfo ==
    /\ pc = "idle"
    /\ \E db_name \in DbNames, drv \in DriversPlain :
          Finish([tool |-> "get_db_info", drv |-> drv, db_name |-> db_name],
                 get_db_info(taos, drv, 0, db_name))

GetLatestData ==
    /\ pc = "idle"
    /\ \E db_name \in DbNames, stable_name \in OptStableNames,
          table_name \in OptTableNames, limit \in Limits, drv \in DriversPlain :
          Finish([tool |-> "get_latest_data", drv |-> drv, db_name |-> db_name,
                  stable_name |-> stable_name, table_name |-> table_name,
                  limit |-> Some(limit)],
                 get_latest_data(taos, drv, 0, db_name, stable_name, table_name, limit))

GetDataByTimeRange ==
    /\ pc = "idle"
    /\ \E db_name \in DbNames, stable_name \in OptStableNames,
          table_name \in OptTableNames, start_time \in Times, end_time \in Times,
          limit \in OptLimits, drv \in DriversPlain :
          Finish([tool |-> "get_data_by_time_range", drv |-> drv, db_name |-> db_name,
                  stable_name |-> stable_name, table_name |-> table_name,
                  start_time |-> start_time, end_time |-> end_time, limit |-> limit],
                 get_data_by_time_range(taos, drv, 0, db_name, stable_name, table_name,
                                        start_time, end_time, limit))

AggregateQuery ==
    /\ pc = "idle"
    /\ \E db_name \in DbNames, stable_name \in OptStableNames,
          table_name \in OptTableNames, interval \in Intervals,
          group_by_tags \in TagLists, start_time \in OptTimes, end_time \in OptTimes,
          drv \in DriversPlain :
          Finish([tool |-> "aggregate_query", drv |-> drv, db_name |-> db_name,
                  stable_name |-> stable_name, table_name |-> table_name,
                  agg_function |-> <<"a", "v", "g">>, column_name |-> <<"temp">>,
                  interval |-> interval, group_by_tags |-> group_by_tags,
                  start_time |-> start_time, end_time |-> end_time],
                 aggregate_query(taos, drv, 0, db_name, stable_name, table_name,
                                 <<"a", "v", "g">>, <<"temp">>, interval, group_by_tags,
                                 start_time, end_time))

\* names a caller may give that carry a denied keyword: the keyword alone,
\* and a name followed by a second statement
KeywordNames == { <<"D", "R", "O", "P">>, <<"t", ";", " ", "D", "R", "O", "P", " ", "t">> }

\* the stable names of the describe tools
DescribeNames == { <<"meters">> } \cup KeywordNames

\* the table names of get_table_stats
StatsTableNames == { None, Some(<<"d1001">>) } \cup { Some(n) : n \in KeywordNames }

GetFieldInfos ==
    /\ pc = "idle"
    /\ \E db_name \in DbNames, stable_name \in DescribeNames, drv \in DriversPlain :
          Finish([tool |-> "get_field_infos", drv |-> drv, db_name |-> db_name,
                  stable_name |-> stable_name],
                 get_field_infos(taos, drv, 0, db_name, stable_name))

GetTagInfos ==
    /\ pc = "idle"
    /\ \E db_name \in DbNames, stable_name \in DescribeNames, drv \in DriversPlain :
          Finish([tool |-> "get_tag_infos", drv |-> drv, db_name |-> db_name,
                  stable_name |-> stable_name],
                 get_tag_infos(taos, drv, 0, db_name, stable_name))

GetTableStats ==
    /\ pc = "idle"
    /\ \E db_name \in DbNames, stable_name \in OptStableNames,
          table_name \in StatsTableNames, drv \in DriversPlain :
          Finish([tool |-> "get_table_stats", drv |-> drv, db_name |-> db_name,
                  stable_name |-> stable_name, table_name |-> table_name],
                 get_table_stats(taos, drv, 0, db_name, stable_name, table_name))

GetTagValues ==
    /\ pc = "idle"
    /\ \E db_name \in DbNames, limit \in OptLimits, drv \in DriversPlain :
          Finish([tool |-> "get_tag_values", drv |-> drv, db_name |-> db_name,
                  stable_name |-> <<"meters">>, tag_name |-> <<"location">>,
                  limit |-> limit],
                 get_tag_values(taos, drv, 0, db_name, <<"meters">>, <<"location">>, limit))

\* a resource is read: its handler calls the client of register_resources
ReadDatabaseResource ==
    /\ pc = "idle"
    /\ \E drv \in Drivers1 :
          FinishAs([tool |-> "taos://database", drv |-> drv],
                   get_current_taos_database(drv, 0), ResourceClient)

ReadSchemasResource ==
    /\ pc = "idle"
    /\ \E drv \in ResourceDrivers :
          FinishAs([tool |-> "taos://schemas", drv |-> drv],
                   get_current_db_all_taos_schema(drv, 0), ResourceClient)

\* the transport forwards the outcome to the caller; nothing is retained
Respond ==
    /\ pc = "done"
    /\ pc' = "idle"
    /\ call' = NoCall
    /\ result' = NoResult
    /\ log' = <<>>
    /\ UNCHANGED <<taos, clients, ctx>>

\* the calls of the tools that send one statement
CatalogCall ==
    \/ QueryTaosDbData
    \/ GetAllStables
    \/ TestTableExists
    \/ GetAllDbs
    \/ SwitchDb
    \/ GetDbInfo
    \/ GetLatestData
    \/ GetDataByTimeRange
    \/ AggregateQuery
    \/ GetTagValues
    \/ GetFieldInfos
    \/ GetTagInfos
    \/ GetTableStats

Next ==
    \/ ServerLifespan
    \/ CatalogCall
    \/ ComprehensiveStableAnalysis
    \/ TimeSeriesDashboardData
    \/ ReadDatabaseResource
    \/ ReadSchemasResource
    \/ Respond

Spec == Init /\ [][Next]_vars

\* the server under calls of the raw query tool only
NextQuery ==
    \/ QueryTaosDbData
    \/ Respond

SpecQuery == InitServing /\ [][NextQuery]_vars

\* the server under calls of comprehensive_stable_analysis only
NextAnalysis ==
    \/ ComprehensiveStableAnalysis
    \/ Respond

SpecAnalysis == InitServing /\ [][NextAnalysis]_vars

\* the server under calls of time_series_dashboard_data only
NextDashboard ==
    \/ TimeSeriesDashboardData
    \/ Respond

SpecDashboard == InitServing /\ [][NextDashboard]_vars

\* the server under calls of the two composite tools
NextComposite ==
    \/ ComprehensiveStableAnalysis
    \/ TimeSeriesDashboardData
    \/ Respond

SpecComposite == InitServing /\ [][NextComposite]_vars

\* the server under calls of the tools that send one statement
NextCatalog ==
    \/ CatalogCall
    \/ Respond

SpecCatalog == InitServing /\ [][NextCatalog]_vars

\* the process from its start: lifespan entries, a tool and the resources
NextProcess ==
    \/ ServerLifespan
    \/ GetAllStables
    \/ GetAllDbs
    \/ ReadDatabaseResource
    \/ ReadSchemasResource
    \/ Respond

SpecProcess == Init /\ [][NextProcess]_vars

-----------------------------------------------------------------------------
(* Properties *)

Done(tool) == pc = "done" /\ call.tool = tool

\* uppercase(trim(s)) starts with one of the denied keywords
StartsWithDenied(s) == StartsWithAny(Upper(Strip(s)), NOT_ALLOWED_TAOS_SQL)

\* s holds a denied keyword somewhere after its first character
DeniedLater(s) ==
    \E i \in 2..Len(s) :
        StartsWithAny(Upper(SubSeq(s, i, Len(s))), NOT_ALLOWED_TAOS_SQL)

\* C1: a statement that starts with a denied keyword, whatever its letter
\* case and the whitespace around it, never reaches the driver: execute_sql
\* raises the fixed security error for it, in every tool; the raw query tool
\* then raises that error to its caller and nothing else was sent.
C1_DeniedNeverSent ==
    /\ \A i \in DOMAIN log :
          StartsWithDenied(log[i].sql) => log[i].ev = "rejected"
    /\ (Done("query_taos_db_data") /\ StartsWithDenied(call.sql_stmt)) =>
          /\ result.raised
          /\ result.error = SecurityError
          /\ log = <<[sql |-> call.sql_stmt, ev |-> "rejected"]>>

\* a rejected statement in lower case with whitespace before it
C1_Witness ==
    /\ Done("query_taos_db_data")
    /\ StartsWithDenied(call.sql_stmt)
    /\ Head(call.sql_stmt) \in Whitespace
    /\ call.sql_stmt = Lower(call.sql_stmt)
    /\ result.raised /\ result.error = SecurityError
    /\ DriverCalls(log) = <<>>

\* C2: a statement that does not start with a denied keyword passes the
\* guard and is handed to the driver exactly as the caller wrote it, also
\* when a denied keyword comes later in it.
C2_AllowedForwarded ==
    (Done("query_taos_db_data") /\ ~StartsWithDenied(call.sql_stmt)) =>
        /\ Len(log) = 1
        /\ log[1].sql = call.sql_stmt
        /\ log[1].ev \in {"returned", "raised"}
        /\ result.raised <=> log[1].ev = "raised"
        /\ result.error # SecurityError

\* a forwarded statement with a denied keyword after its first word and
\* whitespace around it
C2_Witness ==
    /\ Done("query_taos_db_data")
    /\ ~StartsWithDenied(call.sql_stmt)
    /\ DeniedLater(call.sql_stmt)
    /\ Head(call.sql_stmt) \in Whitespace
    /\ log = <<[sql |-> call.sql_stmt, ev |-> "returned"]>>
    /\ ~result.raised

-----------------------------------------------------------------------------
(* Properties of comprehensive_stable_analysis *)

Report == result.value

\* the sub-steps in the order of the code, each named by the key of its section
AnalysisSteps ==
    <<"schema", "tags", "performance", "statistics", "data_integrity",
      "sample_data", "recent_activity", "tag_distribution">>

StepIndex(step) == CHOOSE j \in DOMAIN AnalysisSteps : AnalysisSteps[j] = step

AnalysisBaseKeys == {"stable_name", "database_name", "analysis_timestamp"}

\* every row the driver returns has cells and the stable has a name
WellFormedCall == call.drv.raw.data # << <<>> >> /\ call.stable_name # <<>>

\* the statements of `step` that the driver failed
FailedIn(step) == { i \in DOMAIN log : log[i].step = step /\ log[i].ev = "raised" }

\* C3 (as stated): when the schema step has succeeded, a failure of any later
\* sub-step is recorded under that sub-step's own section, the steps after
\* it still run, and analysis_status is "completed".
C3_EachStepWrapped ==
    (Done("comprehensive_stable_analysis") /\ WellFormedCall /\ FailedIn("schema") = {}) =>
        /\ Report.analysis_status = "completed"
        /\ \A i \in DOMAIN log :
              log[i].ev = "raised" =>
                  /\ log[i].step \in DOMAIN Report
                  /\ "error" \in DOMAIN Report[log[i].step]
        /\ \E i \in DOMAIN log : log[i].step = "data_integrity"

\* C4: when only the tag describe fails, the report has the schema section
\* filled from the driver's answer, a tags section that holds nothing but an
\* error, and analysis_status "completed".
C4_TagFailureIsolated ==
    (Done("comprehensive_stable_analysis") /\ WellFormedCall /\ call.drv.faults = {2}) =>
        /\ ~result.raised
        /\ Report.analysis_status = "completed"
        /\ "error" \notin DOMAIN Report
        /\ log[2].step = "tags" /\ log[2].ev = "raised"
        /\ {"schema", "tags"} \subseteq DOMAIN Report
        /\ Report["schema"] = [columns |-> call.drv.raw.data,
                               column_count |-> Len(call.drv.raw.data)]
        /\ DOMAIN Report["tags"] = {"error"}
        /\ Report["tags"].error = <<"Could not retrieve tag info: ", DriverError>>

\* the tag describe is the one failure of a run that went on to the sample
C4_Witness ==
    /\ Done("comprehensive_stable_analysis")
    /\ WellFormedCall
    /\ call.drv.faults = {2}
    /\ Len(call.drv.raw.data) = 2
    /\ FailedIn("tags") = {2}
    /\ DOMAIN Report["tags"] = {"error"}
    /\ Report["schema"].column_count = 2
    /\ "sample_data" \in DOMAIN Report
    /\ Report.analysis_status = "completed"

\* C5: a report with analysis_status "failed" has a top-level error, the
\* sections of the steps before the failing one, and no section of the
\* failing step or of a step after it.
C5_FailedKeepsEarlierSections ==
    (Done("comprehensive_stable_analysis") /\ Report.analysis_status = "failed") =>
        LET failing == StepIndex(log[Len(log)].step)
        IN  /\ "error" \in DOMAIN Report
            /\ Report.error \in {DriverError, IndexError, SecurityError}
            /\ DOMAIN Report =
                  AnalysisBaseKeys \cup {"analysis_status", "error"}
                     \cup { AnalysisSteps[j] : j \in 1..(failing - 1) }
            /\ failing > 1 =>
                  Report["schema"] = [columns |-> call.drv.raw.data,
                                      column_count |-> Len(call.drv.raw.data)]

\* the integrity check fails after four steps have written their sections
C5_Witness ==
    /\ Done("comprehensive_stable_analysis")
    /\ Report.analysis_status = "failed"
    /\ Report.error = DriverError
    /\ log[Len(log)].step = "data_integrity"
    /\ {"schema", "tags", "performance", "statistics"} \subseteq DOMAIN Report
    /\ "data_integrity" \notin DOMAIN Report
    /\ "tag_columns" \in DOMAIN Report["tags"]

\* C8 (as stated): every statement of an invocation belongs to one of the
\* seven listed sub-steps (schema, tags, performance, integrity, sample,
\* recent window, tag distribution), and the sub-steps come in that order.
C8_OnlyListedSteps ==
    Done("comprehensive_stable_analysis") =>
        /\ \A i \in DOMAIN log :
              log[i].step \in {"schema", "tags", "performance", "data_integrity",
                               "sample_data", "recent_activity", "tag_distribution"}
        /\ \A i, j \in DOMAIN log :
              i < j => StepIndex(log[i].step) <= StepIndex(log[j].step)

\* the number of statements a sub-step may send
MaxStatements(step) ==
    IF step \in {"performance", "data_integrity"} THEN 3 ELSE 1

\* C8 (amended): the statements of an invocation belong to eight sub-steps,
\* the seven listed and the table statistics between the performance summary
\* and the integrity check; they are sent in that order, one sub-step after
\* the other, the first being the schema describe; the sample runs only when
\* include_sample_data is set, the recent-window count only when days_back is
\* above 0, the tag distribution only when the tag describe found tags.
C8_EightStepsInOrder ==
    Done("comprehensive_stable_analysis") =>
        /\ \A i \in DOMAIN log :
              /\ log[i].step \in { AnalysisSteps[j] : j \in DOMAIN AnalysisSteps }
              /\ log[i].ev \in {"returned", "raised"}
        /\ \A i, j \in DOMAIN log :
              i < j => StepIndex(log[i].step) <= StepIndex(log[j].step)
        /\ \A j \in DOMAIN AnalysisSteps :
              Cardinality({ i \in DOMAIN log : log[i].step = AnalysisSteps[j] })
                 <= MaxStatements(AnalysisSteps[j])
        /\ call.stable_name # <<>> =>
              /\ log[1].step = "schema"
              /\ log[1].sql = VerbDescribe \o <<" ">> \o Report.database_name \o <<".">>
                                 \o call.stable_name \o <<";">>
        /\ (\E i \in DOMAIN log : log[i].step = "sample_data") => call.include_sample_data
        /\ (\E i \in DOMAIN log : log[i].step = "recent_activity") =>
              (call.days_back # None /\ call.days_back[1] > 0)
        /\ (\E i \in DOMAIN log : log[i].step = "tag_distribution") =>
              ("tag_columns" \in DOMAIN Report["tags"] /\ Report["tags"].tag_columns # <<>>)
        /\ (Report.analysis_status = "completed" /\ call.stable_name # <<>>) =>
              /\ {"schema", "tags", "performance", "statistics", "data_integrity"}
                    \subseteq { log[i].step : i \in DOMAIN log }
              /\ call.include_sample_data =>
                    \E i \in DOMAIN log : log[i].step = "sample_data"
              /\ (call.days_back # None /\ call.days_back[1] > 0) =>
                    \E i \in DOMAIN log : log[i].step = "recent_activity"

\* a completed run with all eight sub-steps, the statistics statement sixth
C8_Witness ==
    /\ Done("comprehensive_stable_analysis")
    /\ Report.analysis_status = "completed"
    /\ { log[i].step : i \in DOMAIN log } = { AnalysisSteps[j] : j \in DOMAIN AnalysisSteps }
    /\ Len(log) = 12
    /\ log[6].step = "statistics"
    /\ \A i \in DOMAIN log : log[i].ev = "returned"

-----------------------------------------------------------------------------
(* Properties of time_series_dashboard_data *)

\* the statements of the dashboard in the order of the code
DashboardSteps ==
    <<"avg_time_series", "max_time_series", "min_time_series", "overall_average",
      "overall_count", "latest_value", "tag_distribution">>

\* sub occurs in s
Contains(s, sub) ==
    \E i \in 1..(Len(s) - Len(sub) + 1) : SubSeq(s, i, i + Len(sub) - 1) = sub

IntervalAggregate(s, agg) ==
    /\ Contains(s, VerbSelect \o <<" ", "_wstart, ">> \o agg \o <<"(">>)
    /\ Contains(s, <<" INTERVAL(">>)

WindowAggregate(s, agg) ==
    /\ Contains(s, VerbSelect \o <<" ">> \o agg \o <<"(">>)
    /\ ~Contains(s, <<" INTERVAL(">>)

\* the statement that the i-th step of the dashboard sends
DashboardStatement(i, s) ==
    CASE i = 1 -> IntervalAggregate(s, <<"A", "V", "G">>)
      [] i = 2 -> IntervalAggregate(s, <<"M", "A", "X">>)
      [] i = 3 -> IntervalAggregate(s, <<"M", "I", "N">>)
      [] i = 4 -> WindowAggregate(s, <<"A", "V", "G">>)
      [] i = 5 -> WindowAggregate(s, <<"C", "O", "U", "N", "T">>)
      [] i = 6 -> Contains(s, <<" ORDER BY ts DESC LIMIT ", "1", ";">>)
      [] i = 7 -> Contains(s, <<" DISTINCT ">> \o call.group_by_tag[1] \o <<" FROM ">>)

\* the result of a statement that succeeded is part of the report
Attached(step) ==
    CASE step = "overall_average" ->
             /\ "overall_statistics" \in DOMAIN Report
             /\ "average" \in DOMAIN Report["overall_statistics"]
      [] step = "overall_count" ->
             /\ "overall_statistics" \in DOMAIN Report
             /\ "count" \in DOMAIN Report["overall_statistics"]
      [] OTHER -> step \in DOMAIN Report

\* C6: neither composite raises to its caller, whatever its sub-steps do: the
\* analysis returns a report with analysis_status "completed" or "failed",
\* the dashboard one with status "success" or "error", and a "failed" or
\* "error" report carries the message of the failure, which is not empty.
C6_NeverPropagates ==
    /\ Done("comprehensive_stable_analysis") =>
          /\ ~result.raised
          /\ Report.analysis_status \in {"completed", "failed"}
          /\ Report.analysis_status = "failed" <=> "error" \in DOMAIN Report
          /\ "error" \in DOMAIN Report =>
                Report.error \in {DriverError, IndexError, SecurityError, MissingTarget} \ {""}
    /\ Done("time_series_dashboard_data") =>
          /\ ~result.raised
          /\ Report.status \in {"success", "error"}
          /\ Report.status = "error" <=> "error" \in DOMAIN Report
          /\ "error" \in DOMAIN Report =>
                Report.error \in {DriverError, IndexError, SecurityError, MissingTarget} \ {""}

\* a dashboard whose driver failed returns an error report
C6_Witness ==
    /\ Done("time_series_dashboard_data")
    /\ ~result.raised
    /\ call.drv.faults # {}
    /\ Report.status = "error"
    /\ Report.error = DriverError
    /\ log[Len(log)].ev = "raised"

\* C7 (as stated): status is "success" exactly when every statement
\* succeeded, and in an "error" report the result of every statement that
\* succeeded before the failure is attached.
C7_PartialResultsAttached ==
    Done("time_series_dashboard_data") =>
        /\ Report.status = "success" <=>
              (log # <<>> /\ \A i \in DOMAIN log : log[i].ev = "returned")
        /\ Report.status = "error" =>
              \A i \in DOMAIN log : log[i].ev = "returned" => Attached(log[i].step)

\* C9: the dashboard sends at most one statement per step, in the order
\* AVG, MAX, MIN over intervals, AVG and COUNT over the whole window, the
\* latest row, and the tag values only when group_by_tag is given; the
\* statement that fails is the last one sent.
C9_DashboardOrder ==
    Done("time_series_dashboard_data") =>
        /\ Len(log) <= (IF TruthyStr(call.group_by_tag) THEN 7 ELSE 6)
        /\ \A i \in DOMAIN log :
              /\ log[i].step = DashboardSteps[i]
              /\ DashboardStatement(i, log[i].sql)
              /\ i < Len(log) => log[i].ev = "returned"
        /\ Report.status = "success" =>
              Len(log) = (IF TruthyStr(call.group_by_tag) THEN 7 ELSE 6)

\* the third statement fails, before the tag values were looked up
C9_Witness ==
    /\ Done("time_series_dashboard_data")
    /\ TruthyStr(call.group_by_tag)
    /\ call.drv.faults = {3, 6}
    /\ Len(log) = 3
    /\ log[3].ev = "raised"
    /\ Report.status = "error"

-----------------------------------------------------------------------------
(* Properties of execute_sql *)

\* the raw response of the driver to the one statement of the raw query tool
RawOfCall == call.drv.raw

\* C10 (as stated): the result of a successful statement has rows equal to
\* the number of entries of data, whatever fields the raw response has.
C10_RowsEqualsLenData ==
    (Done("query_taos_db_data") /\ ~result.raised) =>
        Report.rows = Len(Report.data)

\* C10 (amended): in the result of a successful statement, rows is the count
\* of the raw response when it carries one and -1 when it does not, and data
\* is the rows of the raw response when it carries them and empty when it
\* does not; rows equals the number of entries of data when the raw response
\* carries both fields.
C10_RowsFollowResponse ==
    (Done("query_taos_db_data") /\ ~result.raised) =>
        /\ Report.rows = (IF "rows" \in DOMAIN RawOfCall THEN RawOfCall.rows ELSE -1)
        /\ Report.data = (IF "data" \in DOMAIN RawOfCall THEN RawOfCall.data ELSE <<>>)
        /\ {"rows", "data"} \subseteq DOMAIN RawOfCall => Report.rows = Len(Report.data)

\* a response of two rows without a count: rows is -1
C10_Witness ==
    /\ Done("query_taos_db_data")
    /\ ~result.raised
    /\ "rows" \notin DOMAIN RawOfCall
    /\ "data" \in DOMAIN RawOfCall
    /\ Len(Report.data) = 2
    /\ Report.rows = -1

\* the default of each field of a TaosSqlResponse
FieldDefaults ==
    [status |-> "", head |-> <<>>, column_meta |-> <<>>, data |-> <<>>, rows |-> -1]

\* the tools that return the result of their one execute_sql call as it is
ReturnsResultSet ==
    call.tool \in {"query_taos_db_data", "get_all_stables", "get_all_dbs", "switch_db",
                   "get_db_info", "get_latest_data", "get_data_by_time_range",
                   "aggregate_query", "get_tag_values"}

\* C11: the result of a successful execute_sql has exactly the fields status,
\* head, column_meta, data and rows; a field the raw response carries has
\* the raw value, a field it omits has its default ("", [], [], [], -1).
C11_FieldsAndDefaults ==
    (pc = "done" /\ ReturnsResultSet /\ ~result.raised) =>
        /\ DOMAIN Report = {"status", "head", "column_meta", "data", "rows"}
        /\ \A f \in DOMAIN FieldDefaults :
              Report[f] = (IF f \in DOMAIN RawOfCall THEN RawOfCall[f] ELSE FieldDefaults[f])

\* get_all_stables against a response of two rows that carries neither
\* status nor head: two rows, the count 2, and the two defaults
C11_Witness ==
    /\ Done("get_all_stables")
    /\ ~result.raised
    /\ DOMAIN RawOfCall = {"column_meta", "data", "rows"}
    /\ Report.data = << <<TsColumn>>, <<TempColumn>> >>
    /\ Report.rows = 2
    /\ Report.status = ""
    /\ Report.head = <<>>

-----------------------------------------------------------------------------
(* Properties of the catalog tools, the resources and the process *)

\* the tools and the resource that call execute_sql once
SendsOneStatement ==
    ReturnsResultSet \/ call.tool \in {"test_table_exists", "taos://database"}

\* C12: no statement is sent again.  A tool of one statement sends it at
\* most once, and when the driver fails on it the tool raises the driver's
\* error; in every operation a statement on which the driver failed is not
\* the next one sent, and the driver fails exactly at the positions at
\* which it was set to fail.
C12_NoRetry ==
    pc = "done" =>
        /\ \A i \in 1..(Len(log) - 1) :
              ~(log[i].ev = "raised" /\ log[i + 1].sql = log[i].sql)
        /\ \A i \in DOMAIN DriverCalls(log) :
              DriverCalls(log)[i].ev = "raised" <=> i \in call.drv.faults
        /\ SendsOneStatement =>
              /\ Len(log) <= 1
              /\ (log # <<>> /\ log[1].ev = "raised") =>
                    (result.raised /\ result.error = DriverError)

\* the tag describe of an analysis fails, and the next statement sent is
\* the first one of the performance summary
C12_Witness ==
    /\ Done("comprehensive_stable_analysis")
    /\ call.drv.faults = {2}
    /\ Len(log) >= 3
    /\ log[2].ev = "raised"
    /\ log[2].sql = VerbShow \o <<" TAGS FROM ">> \o Report.database_name \o <<".">>
                       \o call.stable_name \o <<";">>
    /\ log[3].step = "performance"
    /\ log[3].sql # log[2].sql

\* the tools that need a table or a stable
NeedsTarget == call.tool \in {"get_latest_data", "get_data_by_time_range", "aggregate_query"}

\* neither table_name nor stable_name is given: each is None or ""
NoTarget == ~TruthyStr(call.table_name) /\ ~TruthyStr(call.stable_name)

\* C13: get_latest_data, get_data_by_time_range and aggregate_query, called
\* with neither a table nor a stable (None or ""), raise the missing-target
\* error and no statement is built or sent; with a target they send one.
C13_MissingTarget ==
    (pc = "done" /\ NeedsTarget) =>
        /\ NoTarget => (result.raised /\ result.error = MissingTarget /\ log = <<>>)
        /\ ~NoTarget => (Len(log) = 1 /\ result.error # MissingTarget)

\* aggregate_query with stable_name "" and no table_name
C13_Witness ==
    /\ Done("aggregate_query")
    /\ call.stable_name = Some(<<>>)
    /\ call.table_name = None
    /\ call.drv.faults = {}
    /\ result.raised
    /\ result.error = MissingTarget
    /\ log = <<>>

\* the operations with an optional db_name parameter
HasOptionalDb ==
    call.tool \in {"get_all_stables", "get_db_info", "get_latest_data", "get_data_by_time_range",
                   "aggregate_query", "get_tag_values", "comprehensive_stable_analysis",
                   "time_series_dashboard_data"}

\* the database the call is about: the one given, or the configured default
ExpectedDb ==
    IF call.db_name = None \/ call.db_name = Some(<<>>) THEN taos.database
    ELSE call.db_name[1]

\* every database name of the model
AllDbs == Databases \cup { d[1] : d \in { o \in DbNames : TruthyStr(o) } } \cup SwitchTargets

\* s names db as the qualifier of its target: `db.`
QualifiedBy(s, db) == Contains(s, db \o <<".">>)

\* s looks db up in information_schema: db is the value of its db_name filter
FiltersBy(s, db) ==
    \E i \in 2..(Len(s) - Len(db)) :
        /\ SubSeq(s, i, i + Len(db) - 1) = db
        /\ s[i - 1] \in
              {" stable_name, COUNT(*) as row_count FROM information_schema.ins_stables WHERE db_name='",
               " stable_name, COUNT(*) as table_count FROM information_schema.ins_tables WHERE db_name='",
               " * FROM information_schema.ins_databases WHERE name='",
               "' AND db_name='"}
        /\ s[i + Len(db)] \in {"';", "' GROUP BY stable_name;"}

Pos(s, a) ==
    IF \E i \in DOMAIN s : s[i] = a
    THEN CHOOSE i \in DOMAIN s : s[i] = a /\ \A j \in 1..(i - 1) : s[j] # a
    ELSE 0

\* how often the atom a stands in s
Count(s, a) == Cardinality({ i \in DOMAIN s : s[i] = a })

\* C15: the statement of aggregate_query is SELECT, the select expression
\* (with _wstart ahead of it exactly when an interval is given), FROM and
\* the target, the WHERE clause, PARTITION BY with the tags (exactly when
\* tags are given), INTERVAL (exactly when an interval is given), and ";":
\* in this order, PARTITION BY ahead of INTERVAL, and nothing after the
\* target or the WHERE clause when neither tags nor interval are given.
C15_ClauseOrder ==
    (Done("aggregate_query") /\ log # <<>>) =>
        LET s == log[1].sql
            from == Pos(s, " FROM ")
            where == Pos(s, " WHERE ")
            partition == Pos(s, " PARTITION BY ")
            interval == Pos(s, " INTERVAL(")
            wstart == Pos(s, "_wstart, ")
            agg == Upper(call.agg_function) \o <<"(">> \o call.column_name \o <<")">>
            lastOfWhere == IF where = 0 THEN from + Len(ExpectedDb) + 2 ELSE Len(s) - 1
        IN  /\ SubSeq(s, 1, 7) = VerbSelect \o <<" ">>
            /\ \A a \in {" FROM ", " WHERE ", " PARTITION BY ", " INTERVAL(", "_wstart, ", ";"} :
                  Count(s, a) <= 1
            /\ wstart # 0 <=> TruthyStr(call.interval)
            /\ wstart # 0 => wstart = 8
            /\ SubSeq(s, from - Len(agg), from - 1) = agg
            /\ from = (IF wstart # 0 THEN 9 ELSE 8) + Len(agg)
            /\ SubSeq(s, from + 1, from + Len(ExpectedDb) + 1) = ExpectedDb \o <<".">>
            /\ where # 0 <=> (TruthyStr(call.start_time) \/ TruthyStr(call.end_time))
            /\ where # 0 => where = from + Len(ExpectedDb) + 3
            /\ partition # 0 <=> TruthyStr(call.group_by_tags)
            /\ partition # 0 => (partition > from /\ partition > where)
            /\ partition # 0 =>
                  SubSeq(s, partition + 1, partition + Len(JoinComma(call.group_by_tags[1])))
                     = JoinComma(call.group_by_tags[1])
            /\ interval # 0 <=> TruthyStr(call.interval)
            /\ interval # 0 =>
                  /\ interval > from /\ interval > where /\ interval > partition
                  /\ SubSeq(s, interval + 1, Len(s)) = call.interval[1] \o <<")", ";">>
            /\ (partition # 0 /\ interval # 0) =>
                  interval = partition + Len(JoinComma(call.group_by_tags[1])) + 1
            /\ (partition # 0 /\ interval = 0) =>
                  Len(s) = partition + Len(JoinComma(call.group_by_tags[1])) + 1
            /\ (partition = 0 /\ interval = 0) =>
                  (where = 0 => Len(s) = from + Len(ExpectedDb) + 3)
            /\ s[Len(s)] = ";"

\* an aggregate over an interval, partitioned by two tags, in a time range
C15_Witness ==
    /\ Done("aggregate_query")
    /\ log # <<>>
    /\ call.group_by_tags = Some(<< <<"device">>, <<"location">> >>)
    /\ call.interval = Some(<<"1", "h">>)
    /\ TruthyStr(call.start_time) /\ TruthyStr(call.end_time)
    /\ Pos(log[1].sql, "_wstart, ") = 8
    /\ Pos(log[1].sql, " FROM ") < Pos(log[1].sql, " WHERE ")
    /\ Pos(log[1].sql, " WHERE ") < Pos(log[1].sql, " PARTITION BY ")
    /\ Pos(log[1].sql, " PARTITION BY ") < Pos(log[1].sql, " INTERVAL(")
    /\ Contains(log[1].sql, <<" PARTITION BY ", "device", ", ", "location", " INTERVAL(">>)

\* the operations that take a limit
TakesLimit == {"get_latest_data", "get_data_by_time_range", "get_tag_values"}

\* the statement s carries a LIMIT clause
HasLimit(s) ==
    \E i \in DOMAIN s : s[i] \in {" LIMIT ", " ORDER BY ts DESC LIMIT "}

\* C16: the statement of get_latest_data, get_data_by_time_range and
\* get_tag_values carries a LIMIT clause exactly when the limit is given
\* and truthy: a limit of 0 or None gives a statement without LIMIT.
C16_LimitIffTruthy ==
    (pc = "done" /\ call.tool \in TakesLimit /\ log # <<>>) =>
        (HasLimit(log[1].sql) <=> TruthyInt(call.limit))

\* C17: test_table_exists answers true for the name exactly when the
\* lookup returned at least one row, and false when it returned none.
C17_ExistsIffRows ==
    (Done("test_table_exists") /\ ~result.raised) =>
        /\ DOMAIN Report = {call.stable_name}
        /\ Report[call.stable_name] <=> (Get(RawOfCall, "data", <<>>) # <<>>)

\* C19: one TAOSClient is built per process, whatever the number of
\* server lifespan entries, and every tool and resource call uses it.
C19_OneClient ==
    /\ clients <= 1
    /\ pc = "done" => call.client = ResourceClient

\* a database parameter that is absent
AbsentDb == { None, Some(<<>>) }

\* C20: no step changes the client's configuration (url, username,
\* password, default database, timeout), a successful switch_db to another
\* database and a failed call included; after the step an absent database
\* parameter still resolves to the default database of before the step, and
\* a call made with an absent database names that database in its statements.
C20_ConfigUnchanged ==
    [][ /\ taos' = taos
        /\ \A db \in AbsentDb : ResolveDb(taos', db) = taos.database
        /\ (pc' = "done" /\ HasOptionalDb' /\ call'.db_name \in AbsentDb) =>
              \A i \in DOMAIN log' :
                  QualifiedBy(log'[i].sql, taos.database) \/ FiltersBy(log'[i].sql, taos.database)
      ]_vars

\* switch_db to a database other than the default has succeeded
C20_Witness ==
    /\ Done("switch_db")
    /\ ~result.raised
    /\ log # <<>> /\ log[1].ev = "returned"
    /\ log[1].sql = VerbUse \o <<" ">> \o call.db_name \o <<";">>
    /\ call.db_name # taos.database
    /\ taos \in { TAOSClient(d) : d \in Databases }
    /\ ResolveDb(taos, None) # call.db_name

\* the part of the statement of aggregate_query between the target and the
\* grouping clause (or the closing ";")
WherePart ==
    LET s == log[1].sql
        from == Pos(s, " FROM ")
        first == from + Len(ExpectedDb) + 3
        stops == { i \in first..Len(s) : s[i] \in {" PARTITION BY ", " INTERVAL(", ";"} }
        stop == CHOOSE i \in stops : \A j \in stops : i <= j
    IN  SubSeq(s, first, stop - 1)

\* C21: the WHERE clause of aggregate_query follows the bounds given: both
\* bounds give WHERE ts >= '<start>' AND ts <= '<end>', a start alone gives
\* the ts >= clause alone, an end alone the ts <= clause alone, neither
\* (None or "") gives no WHERE clause; the bounds stand in the statement as
\* they were given.
C21_WhereFollowsBounds ==
    (Done("aggregate_query") /\ log # <<>>) =>
        LET hasStart == TruthyStr(call.start_time)
            hasEnd == TruthyStr(call.end_time)
            lower == <<"ts >= '">> \o call.start_time[1] \o <<"'">>
            upper == <<"ts <= '">> \o call.end_time[1] \o <<"'">>
        IN  /\ (hasStart /\ hasEnd) => WherePart = <<" WHERE ">> \o lower \o <<" AND ">> \o upper
            /\ (hasStart /\ ~hasEnd) => WherePart = <<" WHERE ">> \o lower
            /\ (~hasStart /\ hasEnd) => WherePart = <<" WHERE ">> \o upper
            /\ (~hasStart /\ ~hasEnd) =>
                  /\ WherePart = <<>>
                  /\ Count(log[1].sql, " WHERE ") = 0
            /\ ~hasStart => Count(log[1].sql, "ts >= '") = 0
            /\ ~hasEnd => Count(log[1].sql, "ts <= '") = 0

\* an aggregate between two different bounds
C21_Witness ==
    /\ Done("aggregate_query")
    /\ log # <<>>
    /\ TruthyStr(call.start_time) /\ TruthyStr(call.end_time)
    /\ call.start_time # call.end_time
    /\ Contains(log[1].sql,
                <<" WHERE ", "ts >= '">> \o call.start_time[1] \o <<"'", " AND ", "ts <= '">>
                  \o call.end_time[1] \o <<"'">>)

\* the tag describe of the invocation succeeded and returned a tag row
TagsFound ==
    /\ \E i \in DOMAIN log : log[i].step = "tags" /\ log[i].ev = "returned"
    /\ "tags" \in DOMAIN Report
    /\ "tag_columns" \in DOMAIN Report["tags"]
    /\ Report["tags"].tag_columns # <<>>

\* the statements of the tag-distribution sub-step
TagDistributionStatements == { i \in DOMAIN log : log[i].step = "tag_distribution" }

\* C22: the tag-distribution sub-step of comprehensive_stable_analysis runs
\* exactly when the tag describe succeeded and returned at least one row; it
\* then asks for the distinct values of the first field of the first tag
\* row; and when the tag describe failed or returned no row the report has
\* no tag_distribution section and no tag-distribution statement is sent.
C22_TagDistributionIffTags ==
    Done("comprehensive_stable_analysis") =>
        /\ ("tag_distribution" \in DOMAIN Report) <=> TagsFound
        /\ (TagDistributionStatements # {}) <=> TagsFound
        /\ \A i \in TagDistributionStatements :
              log[i].sql = VerbSelect \o <<" DISTINCT ">> \o Report["tags"].tag_columns[1][1]
                             \o <<" FROM ">> \o Report.database_name \o <<".">>
                             \o call.stable_name \o <<" LIMIT ">> \o IntToStr(20) \o <<";">>
        /\ ~TagsFound =>
              /\ "tag_distribution" \notin DOMAIN Report
              /\ TagDistributionStatements = {}

\* the verbs the tools write at the head of their statements
FixedVerbs == { VerbSelect, VerbShow, VerbDescribe, VerbUse }

\* the names the caller gave that carry a denied keyword
KeywordParameters ==
    IF call.tool \in {"get_field_infos", "get_tag_infos"}
    THEN {call.stable_name} \cap KeywordNames
    ELSE IF call.tool = "get_table_stats"
    THEN { n \in KeywordNames : call.table_name = Some(n) }
    ELSE {}

\* C23: every statement a tool other than query_taos_db_data builds begins
\* with SELECT, SHOW, DESCRIBE or USE, so the guard rejects none of them,
\* whatever the parameters: a denied keyword in a name given by the caller
\* stands in the statement handed to the driver.
C23_BuiltStatementsPass ==
    (pc = "done" /\ call.tool # "query_taos_db_data") =>
        /\ \A i \in DOMAIN log :
              /\ \E verb \in FixedVerbs : StartsWith(log[i].sql, verb)
              /\ ~StartsWithDenied(log[i].sql)
              /\ log[i].ev \in {"returned", "raised"}
        /\ result.raised => result.error # SecurityError
        /\ \A n \in KeywordParameters :
              /\ log # <<>>
              /\ Contains(log[1].sql, n)
              /\ log[1].ev \in {"returned", "raised"}
              /\ log[1].ev = "returned" <=> ~result.raised

\* a table name with a second, denied statement in it went to the driver
C23_Witness ==
    /\ Done("get_table_stats")
    /\ call.table_name = Some(<<"t", ";", " ", "D", "R", "O", "P", " ", "t">>)
    /\ ~result.raised
    /\ Len(log) = 1
    /\ log[1].ev = "returned"
    /\ DeniedLater(log[1].sql)
    /\ Contains(log[1].sql, <<".", "t", ";", " ", "D", "R", "O", "P", " ", "t", ";">>)

=============================================================================
